---------------------------- MODULE Spec2Model ----------------------------
(***************************************************************************)
(* A model of src/project.py: the pandas pipeline that turns raw security, *)
(* exchange-rate, market-index and fundamentals tables into panels.        *)
(*                                                                         *)
(* Every function of the program is one sequential procedure; each is      *)
(* modelled by its own specification (SpecWrite, SpecExrts, SpecMkt,       *)
(* SpecFund, SpecSR), whose Init draws the input tables from bounded sets  *)
(* and whose actions are the statements of the function in program order.  *)
(*                                                                         *)
(* Numbers.  A float is modelled exactly as an extended rational <<n, d>>  *)
(* with d >= 0 and gcd(n, d) = 1: d > 0 is the finite value n/d, <<1,0>>   *)
(* is +inf, <<-1,0>> is -inf and <<0,0>> is NaN (the missing value).       *)
(* Rounding error is not modelled.                                         *)
(*                                                                         *)
(* Time.  A date is <<ym, day>>, ym the number of the calendar month       *)
(* (12 * year + month - 1) and day the day within it; dt.to_period("M")    *)
(* is the first component and the year is ym \div 12.                      *)
(***************************************************************************)
EXTENDS Integers, Sequences, FiniteSets, TLC

VARIABLES
    pc,               \* position of the running function
    WRITE_ON,         \* project.py:5, the process-wide write toggle
    id_vals,          \* write_ids: the identifier column (or index level) of df
    file,             \* write_ids: the named file, [exists, lines]
    stdout,           \* what has been printed
    d_exrts,          \* load_exrts: the daily rows read from the csv
    m_exrts,          \* load_exrts: the monthly table returned
    index_csv,        \* load_market_returns: the rows read from the csv
    mkt_rets,         \* load_market_returns: the frame being built / returned
    fund_csv,         \* load_fundamentals: the rows read from the csv
    fundamentals,     \* load_fundamentals: the frame being built / returned
    y_fs_exrts,       \* load_fundamentals: the yearly conversion rates
    sec_csv,          \* load_security_returns: the rows read from the csv
    security_returns, \* load_security_returns: the frame being built / returned
    security_betas,   \* load_security_returns: the beta frame (lines 240-257)
    drop_outliers     \* load_security_returns: the drop_outliers argument

vars == <<pc, WRITE_ON, id_vals, file, stdout, d_exrts, m_exrts, index_csv,
          mkt_rets, fund_csv, fundamentals, y_fs_exrts, sec_csv,
          security_returns, security_betas, drop_outliers>>

writeVars == <<WRITE_ON, id_vals, file, stdout>>
exrtVars  == <<d_exrts, m_exrts>>
mktVars   == <<index_csv, mkt_rets>>
fundVars  == <<fund_csv, fundamentals, y_fs_exrts>>
secVars   == <<sec_csv, security_returns, security_betas, drop_outliers>>

-----------------------------------------------------------------------------
(* Sequences *)

Range(s) == {s[i] : i \in 1..Len(s)}

\* The subsequence of s at the index set I, in order.
AtIdx(s, I) ==
    [k \in 1..Cardinality(I) |->
        s[CHOOSE i \in I : Cardinality({j \in I : j < i}) = k - 1]]

\* The rows of s satisfying Keep, in order (boolean indexing).
Filter(s, Keep(_)) == AtIdx(s, {i \in 1..Len(s) : Keep(s[i])})

\* All sequences over S of length at most n.
SeqsUpTo(S, n) == UNION {[1..k -> S] : k \in 0..n}

\* The elements of the set S in the order of the strict total order Less.
SortedSeq(S, Less(_, _)) ==
    [k \in 1..Cardinality(S) |->
        CHOOSE x \in S : Cardinality({y \in S : Less(y, x)}) = k - 1]

\* Stable sort of s by the strict weak order Less: the row at i goes behind
\* every row that is less and every equivalent row that came before it.
StableSort(s, Less(_, _)) ==
    LET Before(j, i) == Less(s[j], s[i]) \/ (~Less(s[i], s[j]) /\ j < i)
        Rank(i) == Cardinality({j \in 1..Len(s) : Before(j, i)})
    IN  [k \in 1..Len(s) |-> s[CHOOSE i \in 1..Len(s) : Rank(i) = k - 1]]

-----------------------------------------------------------------------------
(* Extended rationals: the float64 values of the frames *)

NaN    == <<0, 0>>
PosInf == <<1, 0>>
NegInf == <<-1, 0>>

Abs(n)  == IF n < 0 THEN -n ELSE n
Sign(n) == IF n > 0 THEN 1 ELSE IF n < 0 THEN -1 ELSE 0

RECURSIVE GCD(_, _)
GCD(a, b) == IF b = 0 THEN a ELSE GCD(b, a % b)

\* n/d in lowest terms; x/0 is +inf, -inf or NaN by the sign of x.
Norm(n, d) ==
    IF d = 0 THEN <<Sign(n), 0>>
    ELSE LET g == GCD(Abs(n), Abs(d))
         IN  <<Sign(d) * (n \div g), Abs(d) \div g>>

Num(n) == <<n, 1>>

IsNaN(x)    == x = NaN
IsInf(x)    == x[2] = 0 /\ x[1] # 0
IsFinite(x) == x[2] > 0
NotNull(x)  == ~IsNaN(x)

Neg(x) == <<-x[1], x[2]>>

\* The product, cancelling across before multiplying.
Mul(x, y) ==
    IF x[2] = 0 \/ y[2] = 0 THEN Norm(x[1] * y[1], x[2] * y[2])
    ELSE LET g == GCD(Abs(x[1]), y[2])
             h == GCD(Abs(y[1]), x[2])
         IN  Norm((x[1] \div g) * (y[1] \div h), (x[2] \div h) * (y[2] \div g))

Recip(x) ==
    IF x[1] > 0 THEN <<x[2], x[1]>>
    ELSE IF x[1] < 0 THEN <<-x[2], -x[1]>>
    ELSE IF x[2] = 0 THEN NaN ELSE PosInf

Div(x, y) == Mul(x, Recip(y))

Add(x, y) ==
    IF IsNaN(x) \/ IsNaN(y) THEN NaN
    ELSE IF IsInf(x) THEN (IF IsInf(y) /\ y # x THEN NaN ELSE x)
    ELSE IF IsInf(y) THEN y
    ELSE LET g == GCD(x[2], y[2])
         IN  Norm(x[1] * (y[2] \div g) + y[1] * (x[2] \div g), x[2] * (y[2] \div g))

Sub(x, y) == Add(x, Neg(y))

\* x < y as floats: false whenever either side is NaN.
Lt(x, y) ==
    /\ ~IsNaN(x) /\ ~IsNaN(y)
    /\ x # y
    /\ IF IsInf(x) THEN x = NegInf
       ELSE IF IsInf(y) THEN y = PosInf
       ELSE LET g == GCD(x[2], y[2])
            IN  x[1] * (y[2] \div g) < y[1] * (x[2] \div g)

-----------------------------------------------------------------------------
(* write_ids, project.py:7-28 *)

MISSING == "NaN"     \* a missing identifier

Ids == {"id1", "id2"}

MaxIds == 4          \* rows of the dataframe handed to write_ids

WARNING == "WARNING: WRITING ATTEMPTED BUT BLOCKED"

NoFile == [exists |-> FALSE, lines |-> <<>>]

\* Series.dropna(): the non-missing values, in order.
dropna_ids(s) == SelectSeq(s, LAMBDA v : v # MISSING)

\* Series.unique(): each value once, in order of first appearance.
RECURSIVE unique(_)
unique(s) ==
    IF s = <<>> THEN <<>>
    ELSE LET init == unique(SubSeq(s, 1, Len(s) - 1))
             x    == s[Len(s)]
         IN  IF x \in Range(init) THEN init ELSE Append(init, x)

\* The same without the dropna() of line 27.
written_lines_nodrop(s) == unique(s)

\* open(filename, "w") and one fh.write(f"{idval}\n") per value.
written_lines(s) == unique(dropna_ids(s))

write_ids ==
    /\ pc = "write_ids"
    /\ IF ~WRITE_ON
         THEN /\ stdout' = Append(stdout, WARNING)
              /\ file' = file
         ELSE /\ file' = [exists |-> TRUE, lines |-> written_lines(id_vals)]
              /\ stdout' = stdout
    /\ pc' = "done"
    /\ UNCHANGED <<WRITE_ON, id_vals, exrtVars, mktVars, fundVars, secVars>>

InitWriteIdle ==
    /\ WRITE_ON = TRUE
    /\ id_vals = <<>>
    /\ file = NoFile
    /\ stdout = <<>>

InitWrite ==
    /\ pc = "write_ids"
    /\ WRITE_ON \in BOOLEAN
    /\ id_vals \in SeqsUpTo(Ids \cup {MISSING}, MaxIds)
    /\ file \in {NoFile, [exists |-> TRUE, lines |-> <<"old">>]}
    /\ stdout = <<>>
    /\ d_exrts = <<>> /\ m_exrts = <<>>
    /\ index_csv = <<>> /\ mkt_rets = <<>>
    /\ fund_csv = <<>> /\ fundamentals = <<>> /\ y_fs_exrts = <<>>
    /\ sec_csv = <<>> /\ security_returns = <<>> /\ security_betas = <<>>
    /\ drop_outliers = <<>>

NextWrite == write_ids

SpecWrite == InitWrite /\ [][NextWrite]_vars

\* First position of v in s.
FirstIndex(s, v) == CHOOSE i \in 1..Len(s) : s[i] = v /\ \A j \in 1..(i - 1) : s[j] # v

\* C7: with WRITE_ON set, write_ids leaves the file holding exactly the
\* distinct non-missing identifiers, one per line, in order of first occurrence
\* (no header, no line for a missing value, no value twice) and prints nothing;
\* with WRITE_ON cleared it leaves the file as it was (not created, not
\* rewritten) and prints the warning only.
C7_WriteIds ==
    [][pc = "write_ids" =>
        IF WRITE_ON
          THEN LET L == file'.lines
               IN  /\ file'.exists
                   /\ Range(L) = Range(id_vals) \ {MISSING}
                   /\ \A i, j \in 1..Len(L) :
                        i < j => FirstIndex(id_vals, L[i]) < FirstIndex(id_vals, L[j])
                   /\ stdout' = stdout
          ELSE /\ file' = file
               /\ stdout' = Append(stdout, WARNING)]_vars

\* A written file for a column with a repeated and a missing identifier.
C7_Witness ==
    /\ pc = "done" /\ WRITE_ON
    /\ MISSING \in Range(id_vals)
    /\ \E i, j \in 1..Len(id_vals) : i < j /\ id_vals[i] = id_vals[j] /\ id_vals[i] # MISSING
    /\ Len(file.lines) = 2

-----------------------------------------------------------------------------
(* load_exrts, project.py:87-104 *)

Currencies == {"EUR", "JPY"}

\* datadate values of the daily file: two days of month 0, one of month 1.
FxDates == {<<0, 1>>, <<0, 2>>, <<1, 1>>}

\* (exratd_toUSD, exratd_toGBP) of a daily row; either may be missing.
FxRates == {<<Num(1), Num(3)>>, <<Num(2), NaN>>, <<NaN, Num(4)>>, <<NaN, NaN>>}

MaxFxRows == 3       \* rows of the daily exchange-rate file

FxRow(c, d, r) ==
    [curd |-> c, datadate |-> d, exratd_toUSD |-> r[1], exratd_toGBP |-> r[2]]

FxRows == {FxRow(c, d, r) : c \in Currencies, d \in FxDates, r \in FxRates}

to_period(d) == d[1]

DateLt(a, b) == a[1] < b[1] \/ (a[1] = b[1] /\ a[2] < b[2])

\* Order of the currency codes (string comparison).
CurRank(c) == IF c = "EUR" THEN 1 ELSE IF c = "GBP" THEN 2 ELSE IF c = "JPY" THEN 3 ELSE 4

\* sort_values(["curd", "datadate"]), line 94.
ByCurDate(a, b) ==
    \/ CurRank(a.curd) < CurRank(b.curd)
    \/ a.curd = b.curd /\ DateLt(a.datadate, b.datadate)

\* The value of the first row, null or not.
first_row(col) == col[1]

\* GroupBy.first() on one column: the first non-null value, NaN if none.
first_valid(col) ==
    IF \E i \in 1..Len(col) : NotNull(col[i])
      THEN col[CHOOSE i \in 1..Len(col) :
                 NotNull(col[i]) /\ \A j \in 1..(i - 1) : IsNaN(col[j])]
      ELSE NaN

\* The value of the last row, null or not.
last_row(col) == IF col = <<>> THEN NaN ELSE col[Len(col)]

\* GroupBy.last() on one column: the last non-null value, NaN if none.
last_valid(col) ==
    IF \E i \in 1..Len(col) : NotNull(col[i])
      THEN col[CHOOSE i \in 1..Len(col) :
                 NotNull(col[i]) /\ \A j \in (i + 1)..Len(col) : IsNaN(col[j])]
      ELSE NaN

Column(rows, f(_)) == [i \in 1..Len(rows) |-> f(rows[i])]

\* groupby(["curd", "data_ym"]).last().drop(columns="datadate"), lines 97-102:
\* one row per key, keys sorted, each column aggregated on its own.
monthly_last(rows) ==
    LET keys  == {<<r.curd, r.data_ym>> : r \in Range(rows)}
        grp(k) == Filter(rows, LAMBDA r : <<r.curd, r.data_ym>> = k)
        agg(k) == [curd |-> k[1], data_ym |-> k[2],
                   exratd_toUSD |-> last_valid(Column(grp(k), LAMBDA r : r.exratd_toUSD)),
                   exratd_toGBP |-> last_valid(Column(grp(k), LAMBDA r : r.exratd_toGBP))]
        out   == {agg(k) : k \in keys}
        sorted == SortedSeq(keys, LAMBDA a, b : CurRank(a[1]) < CurRank(b[1])
                                               \/ (a[1] = b[1] /\ a[2] < b[2]))
    IN  [i \in 1..Len(sorted) |-> agg(sorted[i])]

\* d_exrts.sort_values(...) and the data_ym column, lines 94-95.
exrts_sort ==
    /\ pc = "exrts_sort"
    /\ d_exrts' = Column(StableSort(d_exrts, ByCurDate),
                         LAMBDA r : [curd |-> r.curd, datadate |-> r.datadate,
                                     exratd_toUSD |-> r.exratd_toUSD,
                                     exratd_toGBP |-> r.exratd_toGBP,
                                     data_ym |-> to_period(r.datadate)])
    /\ pc' = "exrts_group"
    /\ UNCHANGED <<m_exrts, writeVars, mktVars, fundVars, secVars>>

\* m_exrts = d_exrts.groupby(...).last().drop(...), lines 97-104.
exrts_group ==
    /\ pc = "exrts_group"
    /\ m_exrts' = monthly_last(d_exrts)
    /\ pc' = "exrts_done"
    /\ UNCHANGED <<d_exrts, writeVars, mktVars, fundVars, secVars>>

InitExrts ==
    /\ pc = "exrts_sort"
    /\ d_exrts \in SeqsUpTo(FxRows, MaxFxRows)
    /\ m_exrts = <<>>
    /\ InitWriteIdle
    /\ index_csv = <<>> /\ mkt_rets = <<>>
    /\ fund_csv = <<>> /\ fundamentals = <<>> /\ y_fs_exrts = <<>>
    /\ sec_csv = <<>> /\ security_returns = <<>> /\ security_betas = <<>>
    /\ drop_outliers = <<>>

NextExrts == exrts_sort \/ exrts_group

SpecExrts == InitExrts /\ [][NextExrts]_vars

\* The daily observations of the month of the monthly entry e.
MonthObs(e) == {o \in Range(d_exrts) : o.curd = e.curd /\ o.data_ym = e.data_ym}

\* o is dated no earlier than any observation of G.
Latest(o, G) == \A o2 \in G : ~DateLt(o.datadate, o2.datadate)

\* C6 as stated: every monthly entry carries both rates of one observation,
\* the chronologically last of its currency and month, missing rate or not.
C6_LastObservation ==
    pc = "exrts_done" =>
        \A e \in Range(m_exrts) :
            \E o \in MonthObs(e) :
                /\ Latest(o, MonthObs(e))
                /\ e.exratd_toUSD = o.exratd_toUSD
                /\ e.exratd_toGBP = o.exratd_toGBP

\* One rate of the entry e: that of the latest observation of the month that
\* has this rate, missing only if no observation of the month has it.
LastAvailable(e, rate(_)) ==
    LET G == {o \in MonthObs(e) : NotNull(rate(o))}
    IN  IF G = {} THEN IsNaN(rate(e))
        ELSE \E o \in G : Latest(o, G) /\ rate(e) = rate(o)

\* C6 amended: the monthly table has exactly one entry per (currency, month)
\* observed, and each of its two rates, taken separately, is the rate of the
\* latest-dated observation of that month whose rate is not missing.
C6_LastAvailableRate ==
    pc = "exrts_done" =>
        /\ {<<e.curd, e.data_ym>> : e \in Range(m_exrts)}
             = {<<o.curd, o.data_ym>> : o \in Range(d_exrts)}
        /\ \A i, j \in 1..Len(m_exrts) :
             i # j => <<m_exrts[i].curd, m_exrts[i].data_ym>>
                        # <<m_exrts[j].curd, m_exrts[j].data_ym>>
        /\ \A e \in Range(m_exrts) :
             /\ LastAvailable(e, LAMBDA r : r.exratd_toUSD)
             /\ LastAvailable(e, LAMBDA r : r.exratd_toGBP)

\* A month whose last observation lacks the USD rate that an earlier one has.
C6_Witness ==
    /\ pc = "exrts_done"
    /\ \E e \in Range(m_exrts) :
         /\ NotNull(e.exratd_toUSD)
         /\ \E o \in MonthObs(e) :
              /\ IsNaN(o.exratd_toUSD)
              /\ \A o2 \in MonthObs(e) \ {o} : DateLt(o2.datadate, o.datadate)

-----------------------------------------------------------------------------
(* load_market_returns, project.py:107-121 *)

IndexDates == {<<0, 1>>, <<0, 2>>, <<1, 1>>, <<2, 1>>}

IndexPrices == {NaN, Num(1), Num(2), Num(4)}

MaxIndexRows == 3    \* rows of the market index file

IndexRows == {[datadate |-> d, prccm |-> p] : d \in IndexDates, p \in IndexPrices}

\* Series.ffill(): each null replaced by the last non-null value before it.
ffill(col) ==
    [i \in 1..Len(col) |-> last_valid(SubSeq(col, 1, i))]

\* Series.pct_change(): the column is padded (fill_method="pad", the default
\* of the pandas releases that have mode.use_inf_as_null, line 351), then
\* divided by itself shifted down one row, minus 1; the first row is null.
pct_change(col) ==
    LET filled == ffill(col)
    IN  [i \in 1..Len(col) |->
            IF i = 1 THEN NaN ELSE Sub(Div(filled[i], filled[i - 1]), Num(1))]

\* mkt_rets["data_ym"] = ...; set_index("data_ym"), lines 113-114.
mkt_index ==
    /\ pc = "mkt_index"
    /\ mkt_rets' = Column(index_csv,
                          LAMBDA r : [data_ym |-> to_period(r.datadate),
                                      datadate |-> r.datadate, prccm |-> r.prccm])
    /\ pc' = "mkt_pct_change"
    /\ UNCHANGED <<index_csv, writeVars, exrtVars, fundVars, secVars>>

\* mkt_rets["m_mktret"] = mkt_rets["prccm"].pct_change() * 100, line 116.
mkt_pct_change ==
    /\ pc = "mkt_pct_change"
    /\ LET chg == pct_change(Column(mkt_rets, LAMBDA r : r.prccm))
       IN  mkt_rets' = [i \in 1..Len(mkt_rets) |->
                          [data_ym |-> mkt_rets[i].data_ym,
                           datadate |-> mkt_rets[i].datadate,
                           prccm |-> mkt_rets[i].prccm,
                           m_mktret |-> Mul(chg[i], Num(100))]]
    /\ pc' = "mkt_dropna"
    /\ UNCHANGED <<index_csv, writeVars, exrtVars, fundVars, secVars>>

\* mkt_rets = mkt_rets.dropna(), line 117.
mkt_dropna ==
    /\ pc = "mkt_dropna"
    /\ mkt_rets' = Filter(mkt_rets, LAMBDA r : NotNull(r.prccm) /\ NotNull(r.m_mktret))
    /\ pc' = "mkt_select"
    /\ UNCHANGED <<index_csv, writeVars, exrtVars, fundVars, secVars>>

\* mkt_rets = mkt_rets[["m_mktret"]]; return, lines 119-121.
mkt_select ==
    /\ pc = "mkt_select"
    /\ mkt_rets' = Column(mkt_rets,
                          LAMBDA r : [data_ym |-> r.data_ym, m_mktret |-> r.m_mktret])
    /\ pc' = "mkt_done"
    /\ UNCHANGED <<index_csv, writeVars, exrtVars, fundVars, secVars>>

InitMkt ==
    /\ pc = "mkt_index"
    /\ index_csv \in SeqsUpTo(IndexRows, MaxIndexRows)
    /\ mkt_rets = <<>>
    /\ InitWriteIdle
    /\ d_exrts = <<>> /\ m_exrts = <<>>
    /\ fund_csv = <<>> /\ fundamentals = <<>> /\ y_fs_exrts = <<>>
    /\ sec_csv = <<>> /\ security_returns = <<>> /\ security_betas = <<>>
    /\ drop_outliers = <<>>

NextMkt == mkt_index \/ mkt_pct_change \/ mkt_dropna \/ mkt_select

SpecMkt == InitMkt /\ [][NextMkt]_vars

\* DataFrame.join(mkt_rets, how="left", on="data_ym"), lines 233-237: every
\* left row once per row of mkt_rets indexed by its period, in order, and once
\* with a null market return when there is none.
join_mkt(left, mkt, i) ==
    LET hits == Filter(mkt, LAMBDA m : m.data_ym = left[i].data_ym)
    IN  IF hits = <<>> THEN <<NaN>>
        ELSE Column(hits, LAMBDA m : m.m_mktret)

\* The months of the index file and the last price observed in each.
IndexMonths == {to_period(r.datadate) : r \in Range(index_csv)}

LastPriceOf(ym) ==
    LET G == {r \in Range(index_csv) : to_period(r.datadate) = ym}
    IN  (CHOOSE r \in G : \A r2 \in G : ~DateLt(r.datadate, r2.datadate)).prccm

PrevMonth(ym) ==
    CHOOSE p \in IndexMonths : p < ym /\ \A q \in IndexMonths : q < ym => q <= p

\* C8 as stated: the series returned has at most one row per year-month, its
\* return is the percent change of the last price of the month against the
\* last price of the previous observed month, the first month is absent, and
\* so a left row joined on its period comes back as exactly one row.
C8_MonthlySeries ==
    pc = "mkt_done" =>
        /\ \A i, j \in 1..Len(mkt_rets) : i # j => mkt_rets[i].data_ym # mkt_rets[j].data_ym
        /\ \A r \in Range(mkt_rets) :
             /\ \E p \in IndexMonths : p < r.data_ym
             /\ r.m_mktret = Mul(Sub(Div(LastPriceOf(r.data_ym),
                                         LastPriceOf(PrevMonth(r.data_ym))), Num(1)),
                                 Num(100))
        /\ \A ym \in IndexMonths :
             Len(join_mkt(<<[data_ym |-> ym]>>, mkt_rets, 1)) = 1

-----------------------------------------------------------------------------
(* Grouped column operations *)

\* A column computed group by group: F maps the column of one group (its rows
\* in frame order) to a column of the same length, and each row gets back the
\* value at its own place in its group.
GroupApply(rows, key(_), col, F(_)) ==
    [i \in 1..Len(rows) |->
        LET I   == {j \in 1..Len(rows) : key(rows[j]) = key(rows[i])}
            pos == Cardinality({j \in I : j <= i})
        IN  F(AtIdx(col, I))[pos]]

\* Series.shift(): every value one row down, the first row null.
shift(col) == [i \in 1..Len(col) |-> IF i = 1 THEN NaN ELSE col[i - 1]]

RECURSIVE SumSeq(_)
SumSeq(col) == IF col = <<>> THEN Num(0) ELSE Add(Head(col), SumSeq(Tail(col)))

\* GroupBy.mean() on one column: nulls are skipped, NaN if nothing is left.
mean_valid(col) ==
    LET v == SelectSeq(col, NotNull)
    IN  IF v = <<>> THEN NaN ELSE Div(SumSeq(v), Num(Len(v)))

-----------------------------------------------------------------------------
(* load_fundamentals, project.py:283-357, called from main, lines 361-367 *)

\* (at, ceq, oiadp, revt) of a report; any of them may be missing.
Figures == {<<Num(2), Num(1), Num(3), Num(6)>>,
            <<Num(4), Num(1), Num(3), Num(0)>>,
            <<NaN, Num(1), Num(3), Num(12)>>,
            <<Num(4), NaN, Num(3), Num(6)>>,
            <<Num(2), Num(1), NaN, NaN>>}

FiscalYears == {0, 1}

FundRow(g, y, c, f) ==
    [gvkey |-> g, fyear |-> y, datadate |-> <<12 * y + 11, 31>>, curcd |-> c,
     at |-> f[1], ceq |-> f[2], oiadp |-> f[3], revt |-> f[4]]

\* pd.read_csv and the rename of fyear, lines 291-295.
fund_read ==
    /\ pc = "exrts_done"
    /\ fundamentals' = Column(fund_csv,
          LAMBDA r : [gvkey |-> r.gvkey, fiscalyear |-> r.fyear, datadate |-> r.datadate,
                      curcd |-> r.curcd, at |-> r.at, ceq |-> r.ceq,
                      oiadp |-> r.oiadp, revt |-> r.revt])
    /\ pc' = "fund_dedup"
    /\ UNCHANGED <<fund_csv, y_fs_exrts, writeVars, exrtVars, mktVars, secVars>>

FundKey(r) == <<r.gvkey, r.fiscalyear>>

PairLt(a, b) == a[1] < b[1] \/ (a[1] = b[1] /\ a[2] < b[2])

\* groupby(["gvkey", "fiscalyear"]).first(), lines 298-300: one row per key,
\* keys sorted, each column aggregated on its own.  datadate and curcd are
\* never missing in the files modelled, so their first value is the first row's.
dedup_first(rows) ==
    LET keys   == SortedSeq({FundKey(r) : r \in Range(rows)}, PairLt)
        grp(k) == Filter(rows, LAMBDA r : FundKey(r) = k)
        agg(k) == [gvkey |-> k[1], fiscalyear |-> k[2],
                   datadate |-> grp(k)[1].datadate,
                   curcd |-> grp(k)[1].curcd,
                   at |-> first_valid(Column(grp(k), LAMBDA r : r.at)),
                   ceq |-> first_valid(Column(grp(k), LAMBDA r : r.ceq)),
                   oiadp |-> first_valid(Column(grp(k), LAMBDA r : r.oiadp)),
                   revt |-> first_valid(Column(grp(k), LAMBDA r : r.revt))]
    IN  [i \in 1..Len(keys) |-> agg(keys[i])]

fund_dedup ==
    /\ pc = "fund_dedup"
    /\ fundamentals' = dedup_first(fundamentals)
    /\ pc' = "fund_dropna"
    /\ UNCHANGED <<fund_csv, y_fs_exrts, writeVars, exrtVars, mktVars, secVars>>

FundComplete(r) == NotNull(r.at) /\ NotNull(r.ceq) /\ NotNull(r.oiadp) /\ NotNull(r.revt)

\* fundamentals = fundamentals.dropna(), line 302.
fund_dropna ==
    /\ pc = "fund_dropna"
    /\ fundamentals' = Filter(fundamentals, FundComplete)
    /\ pc' = "fund_rates"
    /\ UNCHANGED <<fund_csv, y_fs_exrts, writeVars, exrtVars, mktVars, secVars>>

year(ym) == ym \div 12

\* The monthly rates of one (currency, year), in the order of m_exrts.
YearRates(mx, k) ==
    Column(Filter(mx, LAMBDA r : <<r.curd, year(r.data_ym)>> = k),
           LAMBDA r : r.exratd_toUSD)

\* The income-statement rate as the last rate of the year.
is_rate_last(col) == last_valid(col)

\* The income-statement rate of a year from its monthly rates, lines 316-318.
is_rate(col) == mean_valid(col)

\* The balance-sheet rate of a year from its monthly rates, lines 310-314.
bs_rate(col) == last_valid(col)

\* y_bs_exrts, y_is_exrts and their concat, lines 307-323.
yearly_rates(mx) ==
    LET keys == SortedSeq({<<r.curd, year(r.data_ym)>> : r \in Range(mx)},
                          LAMBDA a, b : CurRank(a[1]) < CurRank(b[1])
                                        \/ (a[1] = b[1] /\ a[2] < b[2]))
    IN  [i \in 1..Len(keys) |->
            [curd |-> keys[i][1], datayear |-> keys[i][2],
             bs_toUSD |-> bs_rate(YearRates(mx, keys[i])),
             is_toUSD |-> is_rate(YearRates(mx, keys[i]))]]

fund_rates ==
    /\ pc = "fund_rates"
    /\ y_fs_exrts' = yearly_rates(m_exrts)
    /\ pc' = "fund_merge"
    /\ UNCHANGED <<fund_csv, fundamentals, writeVars, exrtVars, mktVars, secVars>>

\* The row of the yearly table for (curcd, fiscalyear); nulls when there is none.
lookup_year(c, y) ==
    LET hits == {r \in Range(y_fs_exrts) : r.curd = c /\ r.datayear = y}
    IN  IF hits = {} THEN [bs_toUSD |-> NaN, is_toUSD |-> NaN]
        ELSE CHOOSE r \in hits : TRUE

\* The left merge on (curcd, fiscalyear), lines 325-332.
fund_merge ==
    /\ pc = "fund_merge"
    /\ fundamentals' = Column(fundamentals,
          LAMBDA r : [gvkey |-> r.gvkey, fiscalyear |-> r.fiscalyear,
                      datadate |-> r.datadate, curcd |-> r.curcd,
                      at |-> r.at, ceq |-> r.ceq, oiadp |-> r.oiadp, revt |-> r.revt,
                      bs_toUSD |-> lookup_year(r.curcd, r.fiscalyear).bs_toUSD,
                      is_toUSD |-> lookup_year(r.curcd, r.fiscalyear).is_toUSD])
    /\ pc' = "fund_apply"
    /\ UNCHANGED <<fund_csv, y_fs_exrts, writeVars, exrtVars, mktVars, secVars>>

\* fundamentals["at"] *= fundamentals["bs_toUSD"] and so on, lines 334-338.
fund_apply ==
    /\ pc = "fund_apply"
    /\ fundamentals' = Column(fundamentals,
          LAMBDA r : [r EXCEPT !.at = Mul(r.at, r.bs_toUSD),
                               !.ceq = Mul(r.ceq, r.bs_toUSD),
                               !.oiadp = Mul(r.oiadp, r.is_toUSD),
                               !.revt = Mul(r.revt, r.is_toUSD)])
    /\ pc' = "fund_derive"
    /\ UNCHANGED <<fund_csv, y_fs_exrts, writeVars, exrtVars, mktVars, secVars>>

\* investment and opm, lines 341-347.
fund_derive ==
    /\ pc = "fund_derive"
    /\ LET inv == GroupApply(fundamentals, LAMBDA r : r.gvkey,
                             Column(fundamentals, LAMBDA r : r.at), pct_change)
       IN  fundamentals' = [i \in 1..Len(fundamentals) |->
              LET r == fundamentals[i]
              IN  [gvkey |-> r.gvkey, fiscalyear |-> r.fiscalyear,
                   datadate |-> r.datadate, curcd |-> r.curcd,
                   at |-> r.at, ceq |-> r.ceq, oiadp |-> r.oiadp, revt |-> r.revt,
                   bs_toUSD |-> r.bs_toUSD, is_toUSD |-> r.is_toUSD,
                   investment |-> inv[i], opm |-> Div(r.oiadp, r.revt)]]
    /\ pc' = "fund_final"
    /\ UNCHANGED <<fund_csv, y_fs_exrts, writeVars, exrtVars, mktVars, secVars>>

FundFinite(r) ==
    /\ IsFinite(r.at) /\ IsFinite(r.ceq) /\ IsFinite(r.oiadp) /\ IsFinite(r.revt)
    /\ IsFinite(r.bs_toUSD) /\ IsFinite(r.is_toUSD)
    /\ IsFinite(r.investment) /\ IsFinite(r.opm)

\* dropna() with mode.use_inf_as_null; keep_cols is None; return, lines 351-357.
fund_final ==
    /\ pc = "fund_final"
    /\ fundamentals' = Filter(fundamentals, FundFinite)
    /\ pc' = "fund_done"
    /\ UNCHANGED <<fund_csv, y_fs_exrts, writeVars, exrtVars, mktVars, secVars>>

NextMain ==
    \/ exrts_sort \/ exrts_group
    \/ fund_read \/ fund_dedup \/ fund_dropna \/ fund_rates
    \/ fund_merge \/ fund_apply \/ fund_derive \/ fund_final

MaxFundRows == 3     \* rows of the fundamentals file

\* Reports of entity 1 in every shape, and one plain report of entity 2.
FundRows ==
    {FundRow(1, y, "EUR", f) : y \in FiscalYears, f \in Figures}
      \cup {FundRow(2, 0, "EUR", <<Num(2), Num(1), Num(3), Num(6)>>)}

\* A daily file with one EUR rate in each of the two fiscal years.
PlainExrts ==
    <<FxRow("EUR", <<1, 1>>, <<Num(2), Num(3)>>),
      FxRow("EUR", <<12, 1>>, <<Num(3), Num(3)>>)>>

InitFund ==
    /\ pc = "exrts_sort"
    /\ d_exrts \in {<<>>, PlainExrts}
    /\ m_exrts = <<>>
    /\ fund_csv \in SeqsUpTo(FundRows, MaxFundRows)
    /\ fundamentals = <<>> /\ y_fs_exrts = <<>>
    /\ InitWriteIdle
    /\ index_csv = <<>> /\ mkt_rets = <<>>
    /\ sec_csv = <<>> /\ security_returns = <<>> /\ security_betas = <<>>
    /\ drop_outliers = <<>>

SpecFund == InitFund /\ [][NextMain]_vars

\* Positions in the file of the reports of the pair k = (gvkey, fiscal year).
ReportsOf(k) == {i \in 1..Len(fund_csv) : <<fund_csv[i].gvkey, fund_csv[i].fyear>> = k}

FirstReport(k) == fund_csv[CHOOSE i \in ReportsOf(k) : \A j \in ReportsOf(k) : i <= j]

CsvComplete(r) == NotNull(r.at) /\ NotNull(r.ceq) /\ NotNull(r.oiadp) /\ NotNull(r.revt)

\* C5 as stated: after deduplication every record carries, field by field, the
\* values of the first report of its pair in file order, and after the
\* missing-value drop no pair whose first report lacks a field is left.
C5_FirstRecord ==
    /\ pc = "fund_dropna" =>
         \A d \in Range(fundamentals) :
            LET f == FirstReport(FundKey(d))
            IN  /\ d.datadate = f.datadate /\ d.curcd = f.curcd
                /\ d.at = f.at /\ d.ceq = f.ceq
                /\ d.oiadp = f.oiadp /\ d.revt = f.revt
    /\ pc = "fund_rates" =>
         \A d \in Range(fundamentals) : CsvComplete(FirstReport(FundKey(d)))

\* The field of the deduplicated record d is that of the earliest report of
\* its pair that has the field, and is missing only if none has it.
FirstAvailable(d, field(_)) ==
    LET I == {i \in ReportsOf(FundKey(d)) : NotNull(field(fund_csv[i]))}
    IN  IF I = {} THEN IsNaN(field(d))
        ELSE field(d) = field(fund_csv[CHOOSE i \in I : \A j \in I : i <= j])

\* Every field of the pair k is present in at least one of its reports.
Completable(k) ==
    /\ \E i \in ReportsOf(k) : NotNull(fund_csv[i].at)
    /\ \E i \in ReportsOf(k) : NotNull(fund_csv[i].ceq)
    /\ \E i \in ReportsOf(k) : NotNull(fund_csv[i].oiadp)
    /\ \E i \in ReportsOf(k) : NotNull(fund_csv[i].revt)

\* C5 amended: the deduplicated table has one record per (entity, fiscal year),
\* and each of its fields, taken separately, is the value of the first report
\* in file order in which that field is not missing (so a field the first
\* report lacks is completed from a later duplicate); the missing-value drop
\* then removes exactly the pairs with a field that every report lacks.
C5_FirstAvailableField ==
    /\ pc = "fund_dropna" =>
         /\ \A i, j \in 1..Len(fundamentals) :
              i # j => FundKey(fundamentals[i]) # FundKey(fundamentals[j])
         /\ {FundKey(d) : d \in Range(fundamentals)}
              = {<<r.gvkey, r.fyear>> : r \in Range(fund_csv)}
         /\ \A d \in Range(fundamentals) :
              /\ d.datadate = FirstReport(FundKey(d)).datadate
              /\ d.curcd = FirstReport(FundKey(d)).curcd
              /\ FirstAvailable(d, LAMBDA r : r.at)
              /\ FirstAvailable(d, LAMBDA r : r.ceq)
              /\ FirstAvailable(d, LAMBDA r : r.oiadp)
              /\ FirstAvailable(d, LAMBDA r : r.revt)
    /\ pc = "fund_rates" =>
         {FundKey(d) : d \in Range(fundamentals)}
           = {k \in {<<r.gvkey, r.fyear>> : r \in Range(fund_csv)} : Completable(k)}

\* A pair kept after the drop although its first report lacks a field.
C5_Witness ==
    /\ pc = "fund_rates"
    /\ \E d \in Range(fundamentals) :
         /\ ~CsvComplete(FirstReport(FundKey(d)))
         /\ Cardinality(ReportsOf(FundKey(d))) >= 2

-----------------------------------------------------------------------------
(* main with a daily rate file of several observations per year *)

\* Two days of January and one of February of year 0, one of January of year 1.
YearFxDates == {<<0, 1>>, <<0, 2>>, <<1, 1>>, <<12, 1>>}

YearFxRates == {<<NaN, Num(1)>>, <<Num(1), Num(1)>>, <<Num(3), Num(1)>>}

MaxYearFxRows == 3   \* rows of the daily exchange-rate file

MaxReports == 2      \* rows of the fundamentals file

Plain == <<Num(2), Num(1), Num(3), Num(6)>>

Reports == {FundRow(1, 0, "EUR", Plain), FundRow(1, 1, "EUR", Plain),
            FundRow(1, 1, "JPY", Plain)}

\* One observation per currency and day, in any order.
InitFundFx ==
    /\ pc = "exrts_sort"
    /\ d_exrts \in {s \in SeqsUpTo({FxRow("EUR", d, r) : d \in YearFxDates, r \in YearFxRates},
                                  MaxYearFxRows) :
                       \A i, j \in 1..Len(s) : i # j => s[i].datadate # s[j].datadate}
    /\ m_exrts = <<>>
    /\ fund_csv \in SeqsUpTo(Reports, MaxReports)
    /\ fundamentals = <<>> /\ y_fs_exrts = <<>>
    /\ InitWriteIdle
    /\ index_csv = <<>> /\ mkt_rets = <<>>
    /\ sec_csv = <<>> /\ security_returns = <<>> /\ security_betas = <<>>
    /\ drop_outliers = <<>>

SpecFundFx == InitFundFx /\ [][NextMain]_vars

\* The daily observations of currency c in year y that have a rate to USD.
YearObs(c, y) ==
    {o \in Range(d_exrts) :
        o.curd = c /\ year(to_period(o.datadate)) = y /\ NotNull(o.exratd_toUSD)}

\* Average of the rates of the observations of G, each weighted equally.
ObsMean(G) ==
    IF G = {} THEN NaN
    ELSE Div(SumSeq(Column(SortedSeq(G, LAMBDA a, b : DateLt(a.datadate, b.datadate)),
                           LAMBDA o : o.exratd_toUSD)),
             Num(Cardinality(G)))

\* Rate of the chronologically last observation of G.
ObsLast(G) ==
    IF G = {} THEN NaN
    ELSE (CHOOSE o \in G : Latest(o, G)).exratd_toUSD

\* C10 as stated: the flow figures are multiplied by the average rate of the
\* daily observations of the record's currency over its fiscal year, every
\* observation weighted equally, and the balance-sheet figures by the rate of
\* the chronologically last observation of that currency in that year
\* (observations without a rate to USD left aside).
C10_DailyAverage ==
    [][pc = "fund_apply" =>
        \A i \in 1..Len(fundamentals) :
            LET r == fundamentals[i]
                q == fundamentals'[i]
                G == YearObs(r.curcd, r.fiscalyear)
            IN  /\ q.oiadp = Mul(r.oiadp, ObsMean(G))
                /\ q.revt = Mul(r.revt, ObsMean(G))
                /\ q.at = Mul(r.at, ObsLast(G))
                /\ q.ceq = Mul(r.ceq, ObsLast(G))]_vars

\* The months of year y in which currency c has an observation with a rate.
RatedMonths(c, y) == {to_period(o.datadate) : o \in YearObs(c, y)}

\* The month-end rate: that of the last observation of the month with a rate.
MonthEnd(c, y, m) == ObsLast({o \in YearObs(c, y) : to_period(o.datadate) = m})

\* Average of the month-end rates of the year, each month weighted equally.
MonthEndMean(c, y) ==
    LET M == RatedMonths(c, y)
    IN  IF M = {} THEN NaN
        ELSE Div(SumSeq(Column(SortedSeq(M, LAMBDA a, b : a < b),
                               LAMBDA m : MonthEnd(c, y, m))),
                 Num(Cardinality(M)))

\* C10 amended: the flow figures (operating income, revenue) are multiplied by
\* the average of the monthly rates of the record's currency over its fiscal
\* year, one rate per calendar month that has a rate (the month's last
\* available daily rate), every month weighted equally; the balance-sheet
\* figures (total assets, common equity) by the rate of the chronologically
\* last observation of that currency in that year that has a rate.  A record
\* with no such rate gets missing figures.
C10_MonthEndAverage ==
    [][pc = "fund_apply" =>
        /\ Len(fundamentals') = Len(fundamentals)
        /\ \A i \in 1..Len(fundamentals) :
            LET r == fundamentals[i]
                q == fundamentals'[i]
            IN  /\ q.oiadp = Mul(r.oiadp, MonthEndMean(r.curcd, r.fiscalyear))
                /\ q.revt = Mul(r.revt, MonthEndMean(r.curcd, r.fiscalyear))
                /\ q.at = Mul(r.at, ObsLast(YearObs(r.curcd, r.fiscalyear)))
                /\ q.ceq = Mul(r.ceq, ObsLast(YearObs(r.curcd, r.fiscalyear)))]_vars

\* A converted record of a year with two rated observations in one month and
\* one in another, for which the two averages differ.
C10_Witness ==
    /\ pc = "fund_derive"
    /\ \E r \in Range(fundamentals) :
         /\ IsFinite(r.oiadp) /\ IsFinite(r.at)
         /\ Cardinality(RatedMonths(r.curcd, r.fiscalyear)) = 2
         /\ ObsMean(YearObs(r.curcd, r.fiscalyear)) # MonthEndMean(r.curcd, r.fiscalyear)

-----------------------------------------------------------------------------
(* load_security_returns, project.py:124-280 *)

Window == 12         \* rolling(12), line 244

\* The record r with the columns of s added or replaced.
With(r, s) == s @@ r

RECURSIVE IPow(_, _)
IPow(k, g) == IF g = 0 THEN 1 ELSE k * IPow(k, g - 1)

\* The integer g-th root of n >= 0, rounded down.
IRoot(n, g) == CHOOSE k \in 0..n : IPow(k, g) <= n /\ IPow(k + 1, g) > n

\* x ** e for a base x and an exponent e = 1/g, g a whole number of months,
\* or an exponent that is +inf (g = 0) or NaN (g missing), as numpy computes
\* it.  A root that is not a rational is rounded down to a multiple of the
\* base's denominator; the price files modelled keep every root exact.
Pow(x, e) ==
    IF IsNaN(e) THEN (IF x = Num(1) THEN Num(1) ELSE NaN)
    ELSE IF IsNaN(x) THEN NaN
    ELSE IF e = PosInf
      THEN (IF Abs(x[1]) > x[2] THEN PosInf
            ELSE IF Abs(x[1]) = x[2] THEN Num(1) ELSE Num(0))
    ELSE IF e = Num(1) THEN x
    ELSE IF x[1] < 0 THEN NaN
    ELSE IF IsInf(x) THEN PosInf
    ELSE LET g == e[2]
         IN  Norm(IRoot(x[1] * IPow(x[2], g - 1), g), x[2])

SecKey(r) == <<r.gvkey, r.iid>>

\* pd.read_csv and the data_ym column, lines 137-141.
sr_read ==
    /\ pc = "sr_read"
    /\ security_returns' = Column(sec_csv,
          LAMBDA r : With(r, [data_ym |-> to_period(r.datadate)]))
    /\ pc' = "sr_dropna"
    /\ UNCHANGED <<sec_csv, security_betas, drop_outliers,
                   writeVars, exrtVars, mktVars, fundVars>>

CsvNotNull(r) ==
    NotNull(r.prccm) /\ NotNull(r.ajexm) /\ NotNull(r.trfm) /\ NotNull(r.cshom)

\* security_returns = security_returns.dropna(), line 144.
sr_dropna ==
    /\ pc = "sr_dropna"
    /\ security_returns' = Filter(security_returns, CsvNotNull)
    /\ pc' = "sr_index"
    /\ UNCHANGED <<sec_csv, security_betas, drop_outliers,
                   writeVars, exrtVars, mktVars, fundVars>>

BySecKeyYm(a, b) ==
    \/ a.gvkey < b.gvkey
    \/ a.gvkey = b.gvkey /\ a.iid < b.iid
    \/ a.gvkey = b.gvkey /\ a.iid = b.iid /\ a.data_ym < b.data_ym

\* set_index(["gvkey", "iid", "data_ym"]).sort_index(), lines 147-148.
sr_index ==
    /\ pc = "sr_index"
    /\ security_returns' = StableSort(security_returns, BySecKeyYm)
    /\ pc' = "sr_adjclose"
    /\ UNCHANGED <<sec_csv, security_betas, drop_outliers,
                   writeVars, exrtVars, mktVars, fundVars>>

\* adjclose = (prccm / ajexm) * trfm, line 151.
sr_adjclose ==
    /\ pc = "sr_adjclose"
    /\ security_returns' = Column(security_returns,
          LAMBDA r : With(r, [adjclose |-> Mul(Div(r.prccm, r.ajexm), r.trfm)]))
    /\ pc' = "sr_merge_fx"
    /\ UNCHANGED <<sec_csv, security_betas, drop_outliers,
                   writeVars, exrtVars, mktVars, fundVars>>

\* The monthly rates of (curcdm, data_ym); nulls when m_exrts has no such row.
lookup_month(c, ym) ==
    LET hits == {r \in Range(m_exrts) : r.curd = c /\ r.data_ym = ym}
    IN  IF hits = {} THEN [exratd_toUSD |-> NaN, exratd_toGBP |-> NaN]
        ELSE CHOOSE r \in hits : TRUE

\* The left merge with m_exrts on (curcdm, data_ym), lines 154-161.
sr_merge_fx ==
    /\ pc = "sr_merge_fx"
    /\ security_returns' = Column(security_returns,
          LAMBDA r : With(r, [exratd_toUSD |-> lookup_month(r.curcdm, r.data_ym).exratd_toUSD,
                              exratd_toGBP |-> lookup_month(r.curcdm, r.data_ym).exratd_toGBP]))
    /\ pc' = "sr_returns"
    /\ UNCHANGED <<sec_csv, security_betas, drop_outliers,
                   writeVars, exrtVars, mktVars, fundVars>>

\* (1 + a) * (1 + b) - 1, lines 180-185.
compound(a, b) == Sub(Mul(Add(Num(1), a), Add(Num(1), b)), Num(1))

\* local_ret, USD_fxret, GBP_fxret, USD_ret and GBP_ret, lines 163-185.
sr_returns ==
    /\ pc = "sr_returns"
    /\ LET sr   == security_returns
           lret == GroupApply(sr, SecKey, Column(sr, LAMBDA r : r.adjclose), pct_change)
           uret == GroupApply(sr, SecKey, Column(sr, LAMBDA r : r.exratd_toUSD), pct_change)
           gret == GroupApply(sr, SecKey, Column(sr, LAMBDA r : r.exratd_toGBP), pct_change)
       IN  security_returns' = [i \in 1..Len(sr) |->
              With(sr[i], [local_ret |-> lret[i], USD_fxret |-> uret[i],
                           GBP_fxret |-> gret[i],
                           USD_ret |-> compound(lret[i], uret[i]),
                           GBP_ret |-> compound(lret[i], gret[i])])]
    /\ pc' = "sr_mfreq"
    /\ UNCHANGED <<sec_csv, security_betas, drop_outliers,
                   writeVars, exrtVars, mktVars, fundVars>>

\* Series.diff() of the periods: months elapsed since the row above.
diff(col) == [i \in 1..Len(col) |-> IF i = 1 THEN NaN ELSE Num(col[i] - col[i - 1])]

\* ret_mfreq, lines 188-194.
sr_mfreq ==
    /\ pc = "sr_mfreq"
    /\ LET sr == security_returns
           d  == GroupApply(sr, SecKey, Column(sr, LAMBDA r : r.data_ym), diff)
       IN  security_returns' = [i \in 1..Len(sr) |-> With(sr[i], [ret_mfreq |-> d[i]])]
    /\ pc' = "sr_standardise"
    /\ UNCHANGED <<sec_csv, security_betas, drop_outliers,
                   writeVars, exrtVars, mktVars, fundVars>>

\* ((1 + ret) ** (1 / ret_mfreq)) - 1, lines 196-206.
monthly(ret, mfreq) == Sub(Pow(Add(Num(1), ret), Div(Num(1), mfreq)), Num(1))

percent(x) == Mul(x, Num(100))

\* The monthly returns and the conversion to percentages, lines 196-217.
sr_standardise ==
    /\ pc = "sr_standardise"
    /\ security_returns' = Column(security_returns,
          LAMBDA r : With(r, [m_USD_ret |-> percent(monthly(r.USD_ret, r.ret_mfreq)),
                              m_GBP_ret |-> percent(monthly(r.GBP_ret, r.ret_mfreq)),
                              m_local_ret |-> percent(monthly(r.local_ret, r.ret_mfreq)),
                              local_ret |-> percent(r.local_ret),
                              USD_fxret |-> percent(r.USD_fxret),
                              GBP_fxret |-> percent(r.GBP_fxret),
                              USD_ret |-> percent(r.USD_ret),
                              GBP_ret |-> percent(r.GBP_ret)]))
    /\ pc' = "sr_mktval"
    /\ UNCHANGED <<sec_csv, security_betas, drop_outliers,
                   writeVars, exrtVars, mktVars, fundVars>>

\* local_mktval, USD_mktval and GBP_mktval, lines 220-222.
sr_mktval ==
    /\ pc = "sr_mktval"
    /\ security_returns' = Column(security_returns,
          LAMBDA r : With(r, [local_mktval |-> Mul(r.cshom, r.prccm),
                              USD_mktval |-> Mul(Mul(r.cshom, r.prccm), r.exratd_toUSD),
                              GBP_mktval |-> Mul(Mul(r.cshom, r.prccm), r.exratd_toGBP)]))
    /\ pc' = "sr_mktval_shift"
    /\ UNCHANGED <<sec_csv, security_betas, drop_outliers,
                   writeVars, exrtVars, mktVars, fundVars>>

\* The shift taken over the whole frame, across issues.
frame_shift(rows, col) == shift(col)

\* groupby(level=["gvkey", "iid"]).shift() on one column, lines 226-230, 255-257.
group_shift(rows, col) == GroupApply(rows, SecKey, col, shift)

\* The market values shifted one row forward within each issue, lines 224-230.
sr_mktval_shift ==
    /\ pc = "sr_mktval_shift"
    /\ LET sr == security_returns
           l  == group_shift(sr, Column(sr, LAMBDA r : r.local_mktval))
           u  == group_shift(sr, Column(sr, LAMBDA r : r.USD_mktval))
           g  == group_shift(sr, Column(sr, LAMBDA r : r.GBP_mktval))
       IN  security_returns' = [i \in 1..Len(sr) |->
              With(sr[i], [local_mktval |-> l[i], USD_mktval |-> u[i],
                           GBP_mktval |-> g[i]])]
    /\ pc' = "sr_join_mkt"
    /\ UNCHANGED <<sec_csv, security_betas, drop_outliers,
                   writeVars, exrtVars, mktVars, fundVars>>

RECURSIVE Concat(_)
Concat(ss) == IF ss = <<>> THEN <<>> ELSE Head(ss) \o Concat(Tail(ss))

\* security_returns.join(mkt_rets, how="left", on="data_ym"), lines 233-237.
sr_join_mkt ==
    /\ pc = "sr_join_mkt"
    /\ LET sr == security_returns
       IN  security_returns' = Concat([i \in 1..Len(sr) |->
              Column(join_mkt(sr, mkt_rets, i),
                     LAMBDA m : With(sr[i], [m_mktret |-> m]))])
    /\ pc' = "sr_betas"
    /\ UNCHANGED <<sec_csv, security_betas, drop_outliers,
                   writeVars, exrtVars, mktVars, fundVars>>

\* Rolling.mean() over one full window: null unless all its values are finite
\* (the rolling kernels read inf as NaN, and min_periods is the window).
window_mean(w) ==
    IF \A i \in 1..Len(w) : IsFinite(w[i])
      THEN Div(SumSeq(w), Num(Len(w)))
      ELSE NaN

\* Rolling covariance of one window of pairs <<x, y>>: (E[xy] - E[x]E[y])
\* with the sample correction n / (n - 1).
window_cov(w) ==
    LET x  == Column(w, LAMBDA p : p[1])
        y  == Column(w, LAMBDA p : p[2])
        xy == Column(w, LAMBDA p : Mul(p[1], p[2]))
    IN  Mul(Sub(window_mean(xy), Mul(window_mean(x), window_mean(y))),
            Div(Num(Len(w)), Num(Len(w) - 1)))

\* beta of one window: cov(i, m) / var(m), lines 243-252.
window_beta(w) ==
    Div(window_cov(w), window_cov(Column(w, LAMBDA p : <<p[2], p[2]>>)))

\* A window of n rows ending at each row; null before the n-th row.
rolling_n(pairs, n) ==
    [i \in 1..Len(pairs) |->
        IF i < n THEN NaN ELSE window_beta(SubSeq(pairs, i - n + 1, i))]

\* rolling(12) within one issue: the pairs are (m_local_ret, m_mktret).
rolling_beta(pairs) == rolling_n(pairs, Window)

\* security_betas, lines 239-253: indexed like security_returns.
sr_betas ==
    /\ pc = "sr_betas"
    /\ LET sr == security_returns
           b  == GroupApply(sr, SecKey,
                            Column(sr, LAMBDA r : <<r.m_local_ret, r.m_mktret>>),
                            rolling_beta)
       IN  security_betas' = [i \in 1..Len(sr) |->
              [gvkey |-> sr[i].gvkey, iid |-> sr[i].iid, data_ym |-> sr[i].data_ym,
               beta |-> b[i]]]
    /\ pc' = "sr_betas_shift"
    /\ UNCHANGED <<sec_csv, security_returns, drop_outliers,
                   writeVars, exrtVars, mktVars, fundVars>>

\* security_betas shifted one row forward within each issue, lines 255-257.
sr_betas_shift ==
    /\ pc = "sr_betas_shift"
    /\ LET b == group_shift(security_betas, Column(security_betas, LAMBDA r : r.beta))
       IN  security_betas' = [i \in 1..Len(security_betas) |->
              [security_betas[i] EXCEPT !.beta = b[i]]]
    /\ pc' = "sr_concat"
    /\ UNCHANGED <<sec_csv, security_returns, drop_outliers,
                   writeVars, exrtVars, mktVars, fundVars>>

\* pd.concat([security_returns, security_betas], axis=1), line 259: the two
\* frames carry the same index, so the columns are put side by side as they are.
sr_concat ==
    /\ pc = "sr_concat"
    /\ security_returns' = [i \in 1..Len(security_returns) |->
          With(security_returns[i], [beta |-> security_betas[i].beta])]
    /\ pc' = "sr_finalise"
    /\ UNCHANGED <<sec_csv, security_betas, drop_outliers,
                   writeVars, exrtVars, mktVars, fundVars>>

\* The float columns of the panel.
ValueCols ==
    {"prccm", "ajexm", "trfm", "cshom", "adjclose", "exratd_toUSD", "exratd_toGBP",
     "local_ret", "USD_fxret", "GBP_fxret", "USD_ret", "GBP_ret", "ret_mfreq",
     "m_USD_ret", "m_GBP_ret", "m_local_ret", "local_mktval", "USD_mktval",
     "GBP_mktval", "m_mktret", "beta"}

\* Every float column of the row holds a finite value.
RowFinite(r) == \A c \in ValueCols : IsFinite(r[c])

\* A row dropna() keeps: no column is null (an infinite value is not null).
RowNotNull(r) == \A c \in ValueCols : NotNull(r[c])

\* security_returns = security_returns.dropna(), line 263.
sr_finalise ==
    /\ pc = "sr_finalise"
    /\ security_returns' = Filter(security_returns, RowNotNull)
    /\ pc' = "sr_outliers"
    /\ UNCHANGED <<sec_csv, security_betas, drop_outliers,
                   writeVars, exrtVars, mktVars, fundVars>>

QLow  == <<1, 1000>>     \* quantile(0.001), line 269
QHigh == <<999, 1000>>   \* quantile(0.999), line 270

\* Series.quantile(q) with linear interpolation between the two order
\* statistics around position (n - 1) * q; null for an empty column.
quantile(col, q) ==
    IF col = <<>> THEN NaN
    ELSE LET sorted == StableSort(col, Lt)
             n      == Len(col)
             h      == Mul(Num(n - 1), q)
             j      == h[1] \div h[2]
             frac   == Sub(h, Num(j))
             a      == sorted[j + 1]
             b      == sorted[IF j + 2 <= n THEN j + 2 ELSE n]
         IN  Add(a, Mul(Sub(b, a), frac))

\* The bounds taken inclusive.
inside_inclusive(col, v) ==
    ~Lt(v, quantile(col, QLow)) /\ ~Lt(quantile(col, QHigh), v)

\* (quantile(0.001) < v) & (v < quantile(0.999)), lines 268-271.
inside(col, v) == Lt(quantile(col, QLow), v) /\ Lt(v, quantile(col, QHigh))

\* keep_idx: every designated column of the row is inside the bounds of that
\* column over the whole panel, lines 266-271.
keep_idx(panel, cols, r) ==
    \A k \in 1..Len(cols) :
        inside(Column(panel, LAMBDA x : x[cols[k]]), r[cols[k]])

\* The removal of outliers, lines 265-272.
sr_outliers ==
    /\ pc = "sr_outliers"
    /\ security_returns' =
          IF Len(drop_outliers) > 0
            THEN Filter(security_returns,
                        LAMBDA r : keep_idx(security_returns, drop_outliers, r))
            ELSE security_returns
    /\ pc' = "sr_return"
    /\ UNCHANGED <<sec_csv, security_betas, drop_outliers,
                   writeVars, exrtVars, mktVars, fundVars>>

\* datayear and datayear-1; keep_cols is None; return, lines 274-280.
sr_return ==
    /\ pc = "sr_return"
    /\ security_returns' = Column(security_returns,
          LAMBDA r : With(r, [datayear |-> year(r.data_ym),
                              datayear_1 |-> year(r.data_ym) - 1]))
    /\ pc' = "sr_done"
    /\ UNCHANGED <<sec_csv, security_betas, drop_outliers,
                   writeVars, exrtVars, mktVars, fundVars>>

NextSR ==
    \/ sr_read \/ sr_dropna \/ sr_index \/ sr_adjclose \/ sr_merge_fx
    \/ sr_returns \/ sr_mfreq \/ sr_standardise \/ sr_mktval \/ sr_mktval_shift
    \/ sr_join_mkt \/ sr_betas \/ sr_betas_shift \/ sr_concat
    \/ sr_finalise \/ sr_outliers \/ sr_return

(* The input tables of load_security_returns *)

MaxSeriesLen == 15   \* records of one issue in the security file

\* Monthly closing prices of the two issues and the market's monthly returns:
\* cycles of different lengths, so that every window of 12 rows differs.
\* All price ratios are powers of 4, so a return over two months has an
\* exact monthly equivalent.
PriceCycle(iid) == IF iid = 1 THEN <<1, 4, 4, 16, 4>> ELSE <<4, 1, 1, 4>>

MarketCycle == <<75, 0, 0, 75, 75, 0, 75>>

Cyc(c, i) == c[((i - 1) % Len(c)) + 1]

\* What is unusual about the record at position `at` of an issue: its month is
\* skipped ("skip"), it falls in the month of the record before ("same"), its
\* price is 0 ("zero") or missing ("nan"); "none" for a regular monthly file.
Anomalies == {"skip", "same", "zero", "nan"}

AnomalyPlaces == {2, Window + 1, Window + 2, Window + 3}

SeriesConfigs ==
    {[len |-> n, kind |-> "none", at |-> 0] : n \in (Window + 1)..MaxSeriesLen}
      \cup {c \in {[len |-> n, kind |-> k, at |-> a] :
                       n \in (Window + 1)..MaxSeriesLen, k \in Anomalies,
                       a \in AnomalyPlaces} : c.at <= c.len}

\* The i-th record of issue (1, iid) under the configuration c.
SecRow(iid, c, i) ==
    LET off == IF c.kind = "skip" /\ i >= c.at THEN 1
               ELSE IF c.kind = "same" /\ i >= c.at THEN -1 ELSE 0
    IN  [gvkey |-> 1, iid |-> iid,
         datadate |-> <<i - 1 + off, IF c.kind = "same" /\ i = c.at THEN 2 ELSE 1>>,
         curcdm |-> "EUR",
         prccm |-> IF c.kind = "zero" /\ i = c.at THEN Num(0)
                   ELSE IF c.kind = "nan" /\ i = c.at THEN NaN
                   ELSE Num(Cyc(PriceCycle(iid), i)),
         ajexm |-> Num(1), trfm |-> Num(1),
         cshom |-> Num(4 + iid)]

SecRows(iid, c) == [i \in 1..c.len |-> SecRow(iid, c, i)]

Months == 0..(MaxSeriesLen + 1)

\* m_exrts as load_exrts returns it: one row per (currency, month), sorted.
FxVariants == {"flat", "varying", "gap"}

FxTable(v) ==
    LET ms == SortedSeq(IF v = "gap" THEN Months \ {Window + 1} ELSE Months,
                        LAMBDA a, b : a < b)
    IN  [i \in 1..Len(ms) |->
            [curd |-> "EUR", data_ym |-> ms[i],
             exratd_toUSD |-> IF v = "varying" THEN Num(Cyc(<<1, 4, 1>>, ms[i] + 1))
                              ELSE Num(2),
             exratd_toGBP |-> Num(1)]]

\* mkt_rets as load_market_returns returns it: "normal" has one return per
\* month, "flat" the same return every month, "gap" lacks one month, and
\* "doubled" has two rows per month (an index file with two observations a
\* month).
MktVariants == {"normal", "flat", "gap", "doubled"}

MktRow(v, ym) ==
    [data_ym |-> ym,
     m_mktret |-> IF v = "flat" THEN Num(75) ELSE Num(Cyc(MarketCycle, ym + 1))]

MktTable(v) ==
    LET ms == SortedSeq(IF v = "gap" THEN Months \ {Window + 1} ELSE Months,
                        LAMBDA a, b : a < b)
    IN  Concat([i \in 1..Len(ms) |->
                  IF v = "doubled"
                    THEN <<MktRow(v, ms[i]),
                           [MktRow(v, ms[i] + 3) EXCEPT !.data_ym = ms[i]]>>
                    ELSE <<MktRow(v, ms[i])>>])

OutlierLists ==
    {<<>>, <<"beta">>, <<"USD_mktval">>, <<"beta", "USD_mktval">>,
     <<"USD_mktval", "beta">>, <<"m_USD_ret", "beta", "USD_mktval">>}

\* Issue 2 comes first in the file, issue 1 after it; the full choice of
\* outlier columns is explored with the regular tables, and the irregular
\* tables with one issue and no outlier removal.
InitSR ==
    /\ pc = "sr_read"
    /\ \E a \in SeriesConfigs, lb \in {0, MaxSeriesLen},
          mv \in MktVariants, fv \in FxVariants, dl \in OutlierLists :
         /\ (mv = "normal" /\ fv = "flat") \/ (lb = 0 /\ dl = <<>>)
         /\ sec_csv = SecRows(2, [len |-> lb, kind |-> "none", at |-> 0])
                        \o SecRows(1, a)
         /\ m_exrts = FxTable(fv)
         /\ mkt_rets = MktTable(mv)
         /\ drop_outliers = dl
    /\ security_returns = <<>> /\ security_betas = <<>>
    /\ InitWriteIdle
    /\ d_exrts = <<>>
    /\ index_csv = <<>>
    /\ fund_csv = <<>> /\ fundamentals = <<>> /\ y_fs_exrts = <<>>

SpecSR == InitSR /\ [][NextSR]_vars

-----------------------------------------------------------------------------
(* The look-ahead guard *)

\* The rows of the frame before row i that belong to the issue of row i.
RowsBefore(rows, i) == {j \in 1..(i - 1) : SecKey(rows[j]) = SecKey(rows[i])}

\* The rows of the issue of row i dated the calendar month before row i.
MonthBefore(rows, i) ==
    {j \in 1..Len(rows) : SecKey(rows[j]) = SecKey(rows[i])
                          /\ rows[j].data_ym = rows[i].data_ym - 1}

\* No two rows of the frame share (entity, issue, period).
OneRowPerPeriod(rows) ==
    \A i, j \in 1..Len(rows) :
        i # j => <<SecKey(rows[i]), rows[i].data_ym>> # <<SecKey(rows[j]), rows[j].data_ym>>

\* The column f after the step holds, at every row, the value the column had
\* before the step at the row of the preceding calendar month of the same
\* issue, and is undefined where the issue has no row for that month.
FromMonthBefore(old, new, f(_)) ==
    /\ Len(new) = Len(old)
    /\ \A i \in 1..Len(old) :
         IF MonthBefore(old, i) = {} THEN IsNaN(f(new[i]))
         ELSE \E j \in MonthBefore(old, i) : f(new[i]) = f(old[j])

\* C1 as stated: in a panel with one row per (entity, issue, period), each
\* guarded column (local, USD and GBP market value, beta) holds at period t
\* the unguarded value of period t-1, the preceding calendar month, of the
\* same issue, and is undefined where there is none (the first period).
C1_PrevMonthValue ==
    [][/\ (pc = "sr_mktval_shift" /\ OneRowPerPeriod(security_returns)) =>
            /\ FromMonthBefore(security_returns, security_returns', LAMBDA r : r.local_mktval)
            /\ FromMonthBefore(security_returns, security_returns', LAMBDA r : r.USD_mktval)
            /\ FromMonthBefore(security_returns, security_returns', LAMBDA r : r.GBP_mktval)
       /\ (pc = "sr_betas_shift" /\ OneRowPerPeriod(security_betas)) =>
            FromMonthBefore(security_betas, security_betas', LAMBDA r : r.beta)]_vars

\* The column f after the step holds, at every row, the value the column had
\* before the step at the preceding row of the same issue, and is undefined
\* at the first row of each issue.
FromRowBefore(old, new, f(_)) ==
    /\ Len(new) = Len(old)
    /\ \A i \in 1..Len(old) :
         /\ SecKey(new[i]) = SecKey(old[i]) /\ new[i].data_ym = old[i].data_ym
         /\ IF RowsBefore(old, i) = {} THEN IsNaN(f(new[i]))
            ELSE LET j == CHOOSE k \in RowsBefore(old, i) :
                              \A m \in RowsBefore(old, i) : m <= k
                 IN  f(new[i]) = f(old[j])

\* C1 amended: each guarded column holds, at every row of an (entity, issue)
\* series, the unguarded value computed at the preceding row (the previous
\* observation) of the same series, however many calendar months lie between
\* the two, and is undefined at the first row of the series; it is the value
\* of period t-1 only where the series has an observation in month t-1.
C1_PrevRowValue ==
    [][/\ pc = "sr_mktval_shift" =>
            /\ FromRowBefore(security_returns, security_returns', LAMBDA r : r.local_mktval)
            /\ FromRowBefore(security_returns, security_returns', LAMBDA r : r.USD_mktval)
            /\ FromRowBefore(security_returns, security_returns', LAMBDA r : r.GBP_mktval)
       /\ pc = "sr_betas_shift" =>
            FromRowBefore(security_betas, security_betas', LAMBDA r : r.beta)]_vars

\* Both guards have run on a series that skips a month, and the row after the
\* gap carries a market value and a beta.
C1_Witness ==
    /\ pc = "sr_concat"
    /\ OneRowPerPeriod(security_returns)
    /\ \E i \in 2..Len(security_returns) :
         /\ SecKey(security_returns[i]) = SecKey(security_returns[i - 1])
         /\ security_returns[i].data_ym = security_returns[i - 1].data_ym + 2
         /\ NotNull(security_returns[i].USD_mktval)
         /\ NotNull(security_betas[i].beta)
    /\ \E i, j \in 1..Len(security_returns) :
         SecKey(security_returns[i]) # SecKey(security_returns[j])

-----------------------------------------------------------------------------
(* The outlier filter *)

\* The k-th smallest value of a column, duplicates counted.
KthSmallest(col, k) ==
    CHOOSE v \in Range(col) :
        /\ Cardinality({i \in 1..Len(col) : Lt(col[i], v)}) < k
        /\ k <= Cardinality({i \in 1..Len(col) : ~Lt(v, col[i])})

\* The 0.1th percentile of a column of at most 1000 values: it lies between
\* the two smallest values.
P001(col) ==
    LET n == Len(col)
    IN  IF n = 1 THEN col[1]
        ELSE Add(KthSmallest(col, 1),
                 Mul(<<n - 1, 1000>>, Sub(KthSmallest(col, 2), KthSmallest(col, 1))))

\* The 99.9th percentile of a column of at most 1000 values: it lies between
\* the two largest values.
P999(col) ==
    LET n == Len(col)
    IN  IF n = 1 THEN col[1]
        ELSE Add(KthSmallest(col, n - 1),
                 Mul(<<1000 - (n - 1), 1000>>,
                     Sub(KthSmallest(col, n), KthSmallest(col, n - 1))))

\* Row i of the panel lies strictly between the two percentiles, taken over
\* the whole panel, on the column named c.
StrictlyInside(panel, c, i) ==
    LET col == [k \in 1..Len(panel) |-> panel[k][c]]
    IN  Lt(P001(col), panel[i][c]) /\ Lt(panel[i][c], P999(col))

\* C2: the outlier filter retains a row if and only if, on every column named
\* in drop_outliers, its value is strictly greater than the 0.1th percentile
\* and strictly less than the 99.9th percentile of that column, both
\* percentiles taken over the whole panel as it stood before any row was
\* removed; a value equal to a bound is removed, the retained rows keep their
\* order, and the order in which the columns are listed does not matter.
C2_StrictPanelWide ==
    [][(pc = "sr_outliers" /\ Len(security_returns) > 0) =>
          LET kept == {i \in 1..Len(security_returns) :
                          \A c \in Range(drop_outliers) :
                              StrictlyInside(security_returns, c, i)}
          IN  security_returns' = AtIdx(security_returns, kept)]_vars

\* The filter has run on two columns over a panel of both issues; it has
\* removed rows and retained rows.
C2_Witness ==
    /\ pc = "sr_return"
    /\ Len(drop_outliers) >= 2
    /\ Len(security_returns) >= 1
    /\ Cardinality({r \in Range(sec_csv) : r.iid = 1}) > Window + 1
    /\ Cardinality({r \in Range(sec_csv) : r.iid = 2}) > Window + 1

-----------------------------------------------------------------------------
(* The returned panel *)

\* The records of the file, complete on every field read, of the same issue
\* as the row r and dated before it.
PriorObservations(r) ==
    {j \in 1..Len(sec_csv) :
        /\ SecKey(sec_csv[j]) = SecKey(r)
        /\ CsvNotNull(sec_csv[j])
        /\ DateLt(sec_csv[j].datadate, r.datadate)}

\* C3 as stated: every row of the returned panel has at least 12 prior
\* observations in its (entity, issue) series, and every beta that is
\* defined was computed from 12 consecutive rows of one series.
C3_FullWindow ==
    /\ pc = "sr_betas_shift" =>
          \A i \in 1..Len(security_betas) :
              NotNull(security_betas[i].beta) =>
                  /\ i >= Window
                  /\ \A j \in (i - Window + 1)..i :
                         SecKey(security_returns[j]) = SecKey(security_returns[i])
    /\ pc = "sr_return" =>
          \A r \in Range(security_returns) :
              Cardinality(PriorObservations(r)) >= Window

\* The security file holds at most one record per issue and month, and the
\* market returns one row per month.
OneRecordPerMonth ==
    /\ \A i, j \in 1..Len(sec_csv) :
          (i # j /\ SecKey(sec_csv[i]) = SecKey(sec_csv[j]))
              => to_period(sec_csv[i].datadate) # to_period(sec_csv[j].datadate)
    /\ \A i, j \in 1..Len(mkt_rets) :
          i # j => mkt_rets[i].data_ym # mkt_rets[j].data_ym

\* C4 as stated, for a source with one record per issue and month: no row of
\* the returned panel holds a missing or non-finite value in any of its
\* columns.
C4_AllFinite ==
    (pc = "sr_done" /\ OneRecordPerMonth)
        => \A r \in Range(security_returns) : RowFinite(r)

\* C9 as stated, for any security file and market returns of one row per
\* month: in the returned panel (entity, issue, period) is unique, the
\* periods of each issue are strictly increasing in row order, and the gap
\* in months between consecutive observations is at least 1.
C9_UniqueKey ==
    (pc = "sr_done" /\ \A i, j \in 1..Len(mkt_rets) :
                          i # j => mkt_rets[i].data_ym # mkt_rets[j].data_ym) =>
        /\ OneRowPerPeriod(security_returns)
        /\ \A i, j \in 1..Len(security_returns) :
               (i < j /\ SecKey(security_returns[i]) = SecKey(security_returns[j]))
                   => security_returns[i].data_ym < security_returns[j].data_ym
        /\ \A r \in Range(security_returns) : ~Lt(r.ret_mfreq, <<1, 1>>)

=============================================================================
